---- MODULE Spec2Model ----
(***************************************************************************)
(* MyBookshelf: the record store (BookManager, js/book-manager.js) and the *)
(* presentation layer (VirtualBookshelf, js/bookshelf.js).                 *)
(*                                                                         *)
(* Conventions of the model                                                *)
(*  - an ASIN is a string; AsinChars gives its characters, which is what   *)
(*    the regular expression of isValidASIN reads;                         *)
(*  - timestamps (Date.now()) are integers >= 1 read from the clock `now`  *)
(*    (0 before the first reading);                                        *)
(*    NullTime stands for JavaScript null in metadata.lastImportDate;      *)
(*  - a bookshelf id `bookshelf_<Date.now()>` is the integer timestamp;    *)
(*    AllShelf stands for the selector value 'all';                        *)
(*  - a localStorage slot and a file are <<>> when absent and <<text>>     *)
(*    when present; JSON text is the tree JSON.stringify writes, every    *)
(*    leaf tagged with its JSON type;                                      *)
(*  - of a bookshelf only id, name and books are kept (emoji, description  *)
(*    and createdAt are handled exactly as name is); of userData only      *)
(*    bookshelves, notes, bookOrder and settings (booksPerPage and the     *)
(*    affiliateId that config.json adds).                                  *)
(***************************************************************************)
EXTENDS Integers, Sequences, FiniteSets, TLC

VARIABLES
    library,          \* BookManager.library = {books: [...], metadata: {...}}
    storedLibrary,    \* localStorage['virtualBookshelf_library']
    storedUserData,   \* localStorage['virtualBookshelf_userData']
    libraryFile,      \* the file served as data/library.json
    userData,         \* VirtualBookshelf.userData
    books,            \* VirtualBookshelf.books
    filteredBooks,    \* VirtualBookshelf.filteredBooks
    displayed,        \* the book elements of #bookshelf, in document order
    sortOrder,        \* VirtualBookshelf.sortOrder
    sortDirection,    \* VirtualBookshelf.sortDirection
    currentBookshelf, \* VirtualBookshelf.currentBookshelf
    selectorValue,    \* document.getElementById('bookshelf-selector').value
    booksPerPage,     \* VirtualBookshelf.booksPerPage
    currentPage,      \* VirtualBookshelf.currentPage
    starChecked,      \* the ratings i whose checkbox #star-i is checked
    now,              \* the last value Date.now() returned
    focus,            \* the part of the application the session works with
    op,               \* the operation that ran last
    ret               \* what it returned (or the error it threw)

vars == <<library, storedLibrary, storedUserData, libraryFile, userData, books,
          filteredBooks, displayed, sortOrder, sortDirection,
          currentBookshelf, selectorValue, booksPerPage, currentPage,
          starChecked, now, focus, op, ret>>

\* what the record store never touches
viewVars == <<storedUserData, libraryFile, userData, filteredBooks, displayed,
              sortOrder, sortDirection, currentBookshelf, selectorValue,
              booksPerPage, currentPage, starChecked, focus>>

----------------------------------------------------------------------------
(* Bounds of the model *)

MaxBooks == 3        \* library.books never grows beyond this many records
MaxImport == 2       \* longest list handed to an import
MaxClock == 2        \* Date.now() returns 1..MaxClock
MaxShelves == 2      \* userData.bookshelves never grows beyond this

NullTime == 0
AllShelf == 0

----------------------------------------------------------------------------
(* Generic sequence helpers (Array.prototype methods) *)

Range(s) == {s[i] : i \in DOMAIN s}

\* Array.prototype.findIndex, 1-based; 0 when nothing is found (-1 in JS)
FindIndex(s, P(_)) ==
    IF \E i \in DOMAIN s : P(s[i])
    THEN CHOOSE i \in DOMAIN s : P(s[i]) /\ \A j \in 1..(i-1) : ~P(s[j])
    ELSE 0

\* Array.prototype.filter
Filter(s, P(_)) == SelectSeq(s, P)

\* Array.prototype.indexOf, 1-based; 0 when absent
IndexOf(s, x) == FindIndex(s, LAMBDA y : y = x)

\* Array.prototype.includes
Includes(s, x) == \E i \in DOMAIN s : s[i] = x

\* Array.prototype.splice(i, 1) at 1-based index i
RemoveAt(s, i) == SubSeq(s, 1, i-1) \o SubSeq(s, i+1, Len(s))

\* Array.prototype.splice(i, 0, x): x is inserted before 1-based index i
InsertAt(s, i, x) == SubSeq(s, 1, i-1) \o <<x>> \o SubSeq(s, i, Len(s))

Count(s, P(_)) == Cardinality({i \in DOMAIN s : P(s[i])})

NoDuplicates(s) == \A i, j \in DOMAIN s : s[i] = s[j] => i = j

\* Object.assign(target, updates) / {...target, ...updates}
ObjectAssign(target, updates) ==
    [f \in (DOMAIN target) \cup (DOMAIN updates) |->
        IF f \in DOMAIN updates THEN updates[f] ELSE target[f]]

\* x || d for a string x ('' and undefined are falsy)
OrStr(x, d) == IF x = "" THEN d ELSE x
\* x || d for a number x (0 and undefined are falsy)
OrNum(x, d) == IF x = 0 THEN d ELSE x

----------------------------------------------------------------------------
(* ASINs *)

ASIN1 == "B000000001"
ASIN2 == "B000000002"
ASIN3 == "B00000000Z"
ASIN4 == "B000000004"
LowerAsin == "b000000001"
ShortAsin == "B01"

AsinChars(asin) ==
    CASE asin = ASIN1 -> <<"B","0","0","0","0","0","0","0","0","1">>
      [] asin = ASIN2 -> <<"B","0","0","0","0","0","0","0","0","2">>
      [] asin = ASIN3 -> <<"B","0","0","0","0","0","0","0","0","Z">>
      [] asin = ASIN4 -> <<"B","0","0","0","0","0","0","0","0","4">>
      [] asin = LowerAsin -> <<"b","0","0","0","0","0","0","0","0","1">>
      [] asin = ShortAsin -> <<"B","0","1">>
      [] OTHER -> <<>>

UpperOrDigit == {"A","B","C","D","E","F","G","H","I","J","K","L","M","N","O",
                 "P","Q","R","S","T","U","V","W","X","Y","Z",
                 "0","1","2","3","4","5","6","7","8","9"}

\* a variant of isValidASIN that tests the length only
isValidASINAnyChar(asin) == Len(AsinChars(asin)) = 10

\* /^[A-Z0-9]{10}$/.test(asin)
isValidASIN(asin) ==
    /\ Len(AsinChars(asin)) = 10
    /\ \A i \in 1..10 : AsinChars(asin)[i] \in UpperOrDigit

\* `https://images-na.ssl-images-amazon.com/images/P/${asin}.01.L.jpg`
CoverUrl(asin) ==
    CASE asin = ASIN1 -> "P/B000000001.01.L.jpg"
      [] asin = ASIN2 -> "P/B000000002.01.L.jpg"
      [] asin = ASIN3 -> "P/B00000000Z.01.L.jpg"
      [] asin = ASIN4 -> "P/B000000004.01.L.jpg"
      [] OTHER -> "P/.01.L.jpg"

----------------------------------------------------------------------------
(* JSON.stringify / JSON.parse *)

JsonStr(x) == <<"string", x>>
JsonNum(x) == <<"number", x>>
JsonNull == <<"null">>
\* a timestamp slot that may hold null
JsonTime(t) == IF t = NullTime THEN JsonNull ELSE JsonNum(t)
JsonArray(s, F(_)) == [i \in DOMAIN s |-> F(s[i])]
\* an object used as a dictionary: its keys stay, its values are converted
JsonDict(d, F(_)) == [k \in DOMAIN d |-> F(d[k])]

ParseLeaf(j) == j[2]
ParseTime(j) == IF j = JsonNull THEN NullTime ELSE j[2]

StringifyBook(b) ==
    [asin |-> JsonStr(b.asin), title |-> JsonStr(b.title),
     authors |-> JsonStr(b.authors), acquiredTime |-> JsonNum(b.acquiredTime),
     readStatus |-> JsonStr(b.readStatus), productImage |-> JsonStr(b.productImage),
     source |-> JsonStr(b.source), addedDate |-> JsonNum(b.addedDate)]

ParseBook(j) ==
    [asin |-> ParseLeaf(j.asin), title |-> ParseLeaf(j.title),
     authors |-> ParseLeaf(j.authors), acquiredTime |-> ParseLeaf(j.acquiredTime),
     readStatus |-> ParseLeaf(j.readStatus), productImage |-> ParseLeaf(j.productImage),
     source |-> ParseLeaf(j.source), addedDate |-> ParseLeaf(j.addedDate)]

StringifyMetadata(m) ==
    [lastImportDate |-> JsonTime(m.lastImportDate), totalBooks |-> JsonNum(m.totalBooks),
     manuallyAdded |-> JsonNum(m.manuallyAdded),
     importedFromKindle |-> JsonNum(m.importedFromKindle)]

ParseMetadata(j) ==
    [lastImportDate |-> ParseTime(j.lastImportDate), totalBooks |-> ParseLeaf(j.totalBooks),
     manuallyAdded |-> ParseLeaf(j.manuallyAdded),
     importedFromKindle |-> ParseLeaf(j.importedFromKindle)]

\* JSON.stringify(this.library)
StringifyLibrary(lib) ==
    [books |-> JsonArray(lib.books, StringifyBook),
     metadata |-> StringifyMetadata(lib.metadata)]

\* JSON.parse(savedLibrary)
ParseLibrary(j) ==
    [books |-> JsonArray(j.books, ParseBook), metadata |-> ParseMetadata(j.metadata)]

----------------------------------------------------------------------------
(* BookManager *)

EmptyMetadata ==
    [lastImportDate |-> NullTime, totalBooks |-> 0, manuallyAdded |-> 0,
     importedFromKindle |-> 0]

\* constructor
EmptyLibrary == [books |-> <<>>, metadata |-> EmptyMetadata]

HasAsin(bs, asin) == \E i \in DOMAIN bs : bs[i].asin = asin

\* this.library.books.findIndex(book => book.asin === asin), 1-based, 0 if none
BookIndex(bs, asin) == FindIndex(bs, LAMBDA b : b.asin = asin)

CountSource(bs, src) == Count(bs, LAMBDA b : b.source = src)

\* what an operation hands back: the library it leaves, whether it reached
\* saveLibrary, and its return value (or the error it threw)
Outcome(lib, saved, r) == [library |-> lib, saved |-> saved, ret |-> r]
Thrown(lib, msg) == Outcome(lib, FALSE, [error |-> msg])
Failed(r) == "error" \in DOMAIN r

shouldUpdateBook(existingBook, newBook) ==
    \/ existingBook.acquiredTime # newBook.acquiredTime
    \/ existingBook.readStatus # newBook.readStatus
    \/ existingBook.title # newBook.title
    \/ existingBook.productImage # newBook.productImage

\* a variant of KindleFields that copies the whole imported record, tagged
KindleFieldsTagged(kindleBook) ==
    ObjectAssign(kindleBook, [source |-> "kindle_import"])

\* the five fields importFromKindle copies onto an existing record
KindleFields(kindleBook) ==
    [title |-> kindleBook.title, authors |-> kindleBook.authors,
     acquiredTime |-> kindleBook.acquiredTime, readStatus |-> kindleBook.readStatus,
     productImage |-> kindleBook.productImage]

\* { ...book, source: 'kindle_import', addedDate: Date.now() }
AsKindleImport(book, t) ==
    ObjectAssign(book, [source |-> "kindle_import", addedDate |-> t])

\* a variant of ImportLoop that looks for each asin among the records the
\* library had before the loop only
ImportLoopStale(bs, kindleBooks, i, res, t) ==
    LET fresh == SelectSeq(kindleBooks, LAMBDA k : ~HasAsin(bs, k.asin))
    IN  [books |-> bs \o [j \in 1..Len(fresh) |-> AsKindleImport(fresh[j], t)],
         results |-> [res EXCEPT !.added = Len(fresh),
                                 !.skipped = Len(kindleBooks) - Len(fresh)]]

\* the for loop of importFromKindle from element i on
RECURSIVE ImportLoop(_, _, _, _, _)
ImportLoop(bs, kindleBooks, i, res, t) ==
    IF i > Len(kindleBooks) THEN [books |-> bs, results |-> res]
    ELSE LET kindleBook == kindleBooks[i]
             idx == BookIndex(bs, kindleBook.asin)
         IN  IF idx # 0
             THEN IF shouldUpdateBook(bs[idx], kindleBook)
                  THEN ImportLoop(
                         [bs EXCEPT ![idx] = ObjectAssign(@, KindleFields(kindleBook))],
                         kindleBooks, i + 1,
                         [res EXCEPT !.updated = @ + 1], t)
                  ELSE ImportLoop(bs, kindleBooks, i + 1,
                                  [res EXCEPT !.skipped = @ + 1], t)
             ELSE ImportLoop(Append(bs, AsKindleImport(kindleBook, t)),
                             kindleBooks, i + 1,
                             [res EXCEPT !.added = @ + 1], t)

importFromKindle(lib, kindleBooks, t) ==
    LET importResults == [total |-> Len(kindleBooks), added |-> 0, updated |-> 0,
                          skipped |-> 0]
        done == ImportLoop(lib.books, kindleBooks, 1, importResults, t)
        metadata == [lib.metadata EXCEPT
                        !.lastImportDate = t,
                        !.totalBooks = Len(done.books),
                        !.importedFromKindle = CountSource(done.books, "kindle_import")]
    IN  Outcome([books |-> done.books, metadata |-> metadata], TRUE, done.results)

\* a variant of SelectedLoop that passes over the books the library has
\* without recording them as duplicates
SelectedLoopUncounted(bs, selectedBooks, i, existingASINs, acc, t) ==
    LET fresh == SelectSeq(selectedBooks, LAMBDA b : b.asin \notin existingASINs)
        added == [j \in 1..Len(fresh) |-> AsKindleImport(fresh[j], t)]
    IN  [books |-> bs \o added, acc |-> [acc EXCEPT !.imported = added]]

\* the for loop of importSelectedBooks from element i on; existingASINs is
\* the set built once before the loop
RECURSIVE SelectedLoop(_, _, _, _, _, _)
SelectedLoop(bs, selectedBooks, i, existingASINs, acc, t) ==
    IF i > Len(selectedBooks) THEN [books |-> bs, acc |-> acc]
    ELSE LET book == selectedBooks[i] IN
         IF book.asin \in existingASINs
         THEN SelectedLoop(bs, selectedBooks, i + 1, existingASINs,
                           [acc EXCEPT !.duplicates = Append(@, book.asin)], t)
         ELSE LET bookToAdd == AsKindleImport(book, t) IN
              SelectedLoop(Append(bs, bookToAdd), selectedBooks, i + 1, existingASINs,
                           [acc EXCEPT !.imported = Append(@, bookToAdd)], t)

importSelectedBooks(lib, selectedBooks, t) ==
    LET existingASINs == {lib.books[i].asin : i \in DOMAIN lib.books}
        done == SelectedLoop(lib.books, selectedBooks, 1, existingASINs,
                             [imported |-> <<>>, duplicates |-> <<>>, errors |-> <<>>], t)
        metadata == [totalBooks |-> Len(done.books),
                     manuallyAdded |-> CountSource(done.books, "manual_add"),
                     importedFromKindle |-> CountSource(done.books, "kindle_import"),
                     lastImportDate |-> t]
    IN  Outcome([books |-> done.books, metadata |-> metadata], TRUE,
                [success |-> TRUE, total |-> Len(selectedBooks),
                 added |-> Len(done.acc.imported), updated |-> 0,
                 skipped |-> Len(done.acc.duplicates) + Len(done.acc.errors),
                 imported |-> done.acc.imported, duplicates |-> done.acc.duplicates,
                 errors |-> done.acc.errors])

addBookManually(lib, bookData, t) ==
    LET asin == bookData.asin IN
    IF asin = "" \/ ~isValidASIN(asin) THEN Thrown(lib, "invalid ASIN")
    ELSE IF HasAsin(lib.books, asin) THEN Thrown(lib, "already in library")
    ELSE LET newBook == [asin |-> asin,
                         title |-> OrStr(bookData.title, "untitled"),
                         authors |-> OrStr(bookData.authors, "no author"),
                         acquiredTime |-> OrNum(bookData.acquiredTime, t),
                         readStatus |-> OrStr(bookData.readStatus, "UNKNOWN"),
                         productImage |-> OrStr(bookData.productImage, CoverUrl(asin)),
                         source |-> "manual_add",
                         addedDate |-> t]
             bs == Append(lib.books, newBook)
             metadata == [lib.metadata EXCEPT
                             !.totalBooks = Len(bs),
                             !.manuallyAdded = CountSource(bs, "manual_add")]
         IN  Outcome([books |-> bs, metadata |-> metadata], TRUE, newBook)

deleteBook(lib, asin, hardDelete) ==
    LET bookIndex == BookIndex(lib.books, asin) IN
    IF bookIndex = 0 THEN Thrown(lib, "book not found")
    ELSE IF hardDelete
         THEN LET bs == RemoveAt(lib.books, bookIndex)
                  metadata == [lib.metadata EXCEPT
                                  !.totalBooks = Len(bs),
                                  !.manuallyAdded = CountSource(bs, "manual_add"),
                                  !.importedFromKindle = CountSource(bs, "kindle_import")]
              IN  Outcome([books |-> bs, metadata |-> metadata], TRUE, [ok |-> TRUE])
         ELSE Outcome(lib, TRUE, [ok |-> TRUE])

clearAllBooks(lib) == Outcome(EmptyLibrary, TRUE, [ok |-> TRUE])

\* the second definition of updateBook in the class body, which is the one
\* the class ends up with
updateBook(lib, asin, updates) ==
    LET idx == BookIndex(lib.books, asin) IN
    IF idx = 0 THEN Thrown(lib, "book not found")
    ELSE LET bs == [lib.books EXCEPT ![idx] = ObjectAssign(@, updates)]
         IN  Outcome([lib EXCEPT !.books = bs], TRUE, bs[idx])

----------------------------------------------------------------------------
(* JavaScript values that are a number in one place and a string in another *)

Num(n) == <<"number", n>>
Str(x) == <<"string", x>>

\* parseInt of the strings the model uses
ParseInt(x) == CASE x = "1" -> 1 [] x = "2" -> 2 [] x = "3" -> 3 [] OTHER -> 0

\* the number a value is coerced to in arithmetic and comparison
ToNumber(v) == IF v[1] = "number" THEN v[2] ELSE ParseInt(v[2])

\* a + v: addition when v is a number, string concatenation when it is a
\* string; the result is then read as a number by Array.prototype.slice
\* (the strings of the model have one digit)
PlusThenToNumber(a, v) == IF v[1] = "number" THEN a + v[2] ELSE a * 10 + ParseInt(v[2])

----------------------------------------------------------------------------
(* VirtualBookshelf: userData and its serialization *)

DefaultBooksPerPage == 50
AllBooksPerPage == 999999

\* data/config.json
Config == [affiliateId |-> "shelf-22"]

\* getDefaultSettings (affiliateId: '' stands for the missing property)
getDefaultSettings == [booksPerPage |-> Num(DefaultBooksPerPage), affiliateId |-> ""]

\* createDefaultUserData
createDefaultUserData ==
    [bookshelves |-> <<>>, notes |-> <<>>, bookOrder |-> <<>>,
     settings |-> getDefaultSettings]

EmptyDict == <<>>

\* obj[key] = value
DictPut(d, k, v) == [x \in (DOMAIN d) \cup {k} |-> IF x = k THEN v ELSE d[x]]
\* delete obj[key]
DictDelete(d, k) == [x \in (DOMAIN d) \ {k} |-> d[x]]

JsonValue(v) == v
StringifyAsinList(s) == JsonArray(s, JsonStr)
ParseAsinList(j) == JsonArray(j, ParseLeaf)

StringifyShelf(b) ==
    [id |-> JsonNum(b.id), name |-> JsonStr(b.name), books |-> StringifyAsinList(b.books)]
ParseShelf(j) ==
    [id |-> ParseLeaf(j.id), name |-> ParseLeaf(j.name), books |-> ParseAsinList(j.books)]

\* a variant of StringifyNote that leaves the rating out
StringifyNoteUnrated(n) == [memo |-> JsonStr(n.memo), rating |-> JsonNum(0)]

StringifyNote(n) == [memo |-> JsonStr(n.memo), rating |-> JsonNum(n.rating)]
ParseNote(j) == [memo |-> ParseLeaf(j.memo), rating |-> ParseLeaf(j.rating)]

StringifySettings(st) ==
    [booksPerPage |-> JsonValue(st.booksPerPage), affiliateId |-> JsonStr(st.affiliateId)]
ParseSettings(j) ==
    [booksPerPage |-> j.booksPerPage, affiliateId |-> ParseLeaf(j.affiliateId)]

\* JSON.stringify(this.userData)
StringifyUserData(ud) ==
    [bookshelves |-> JsonArray(ud.bookshelves, StringifyShelf),
     notes |-> JsonDict(ud.notes, StringifyNote),
     bookOrder |-> JsonDict(ud.bookOrder, StringifyAsinList),
     settings |-> StringifySettings(ud.settings)]

\* JSON.parse(savedUserData)
ParseUserData(j) ==
    [bookshelves |-> JsonArray(j.bookshelves, ParseShelf),
     notes |-> JsonDict(j.notes, ParseNote),
     bookOrder |-> JsonDict(j.bookOrder, ParseAsinList),
     settings |-> ParseSettings(j.settings)]

\* BookManager.saveLibrary: the value left under 'virtualBookshelf_library'
\* a variant of saveLibrary whose write is lost
saveLibraryLost(lib) == storedLibrary

saveLibrary(lib) == <<StringifyLibrary(lib)>>

\* VirtualBookshelf.saveUserData: the value left under 'virtualBookshelf_userData'
saveUserData(ud) == <<StringifyUserData(ud)>>

----------------------------------------------------------------------------
(* VirtualBookshelf: filtering, sorting, rendering *)

\* a variant of RatingOf in which a book without a note has no rating
RatingOfNoted(ud, asin) == IF asin \in DOMAIN ud.notes THEN ud.notes[asin].rating ELSE -1

\* this.userData.notes[asin]?.rating || 0
RatingOf(ud, asin) == IF asin \in DOMAIN ud.notes THEN ud.notes[asin].rating ELSE 0
\* this.userData.notes[asin]?.memo || ''
MemoOf(ud, asin) == IF asin \in DOMAIN ud.notes THEN ud.notes[asin].memo ELSE ""

\* this.userData.bookshelves.find(b => b.id === id), 1-based index, 0 if none
ShelfIndex(ud, id) == FindIndex(ud.bookshelves, LAMBDA b : b.id = id)

\* the predicate of this.books.filter in applyFilters (the search filter is
\* off: searchQuery is undefined until the search box is typed in)
PassesFilters(book, ud, shelf, stars) ==
    /\ \/ shelf = AllShelf
       \/ ShelfIndex(ud, shelf) = 0
       \/ Includes(ud.bookshelves[ShelfIndex(ud, shelf)].books, book.asin)
    /\ RatingOf(ud, book.asin) \in stars

\* toLowerCase order of the titles and authors of the model
LowerRank(x) ==
    CASE x = "alpha" -> 1 [] x = "Beta" -> 2 [] x = "gamma" -> 3
      [] x = "untitled" -> 4 [] OTHER -> 0

\* the value the comparator of applySorting compares
SortKey(book, order) ==
    CASE order = "title" -> LowerRank(book.title)
      [] order = "authors" -> LowerRank(book.authors)
      [] order = "acquiredTime" -> book.acquiredTime
      [] OTHER -> 0

\* the comparator of applySorting
SortCompare(a, b, order, direction) ==
    LET comparison == IF SortKey(a, order) < SortKey(b, order) THEN -1
                      ELSE IF SortKey(a, order) > SortKey(b, order) THEN 1 ELSE 0
    IN  IF direction = "asc" THEN comparison ELSE -comparison

\* Array.prototype.sort with a consistent comparator: stable
StableSort(s, Cmp(_, _)) ==
    LET pos(i) == 1 + Cardinality({j \in DOMAIN s :
                        \/ Cmp(s[j], s[i]) < 0
                        \/ Cmp(s[j], s[i]) = 0 /\ j < i})
    IN  [k \in DOMAIN s |-> s[CHOOSE i \in DOMAIN s : pos(i) = k]]

(* filteredBooks holds book objects of this.books, not copies: the model    *)
(* keeps it as the sequence of their positions in this.books, so that a     *)
(* record changed in place is seen changed through filteredBooks too.       *)

\* applySorting: what filteredBooks.sort leaves
applySorting(fb, bks, order, direction) ==
    StableSort(fb, LAMBDA i, j : SortCompare(bks[i], bks[j], order, direction))

\* applyFilters: filter, then applySorting
applyFilters(bks, ud, shelf, stars, order, direction) ==
    applySorting(
        SelectSeq([i \in DOMAIN bks |-> i],
                  LAMBDA i : PassesFilters(bks[i], ud, shelf, stars)),
        bks, order, direction)

\* this.filteredBooks.map(book => book.asin)
AsinsOf(fb, bks) == [k \in DOMAIN fb |-> bks[fb[k]].asin]

\* a variant of CustomCompare that puts the books the list lacks first
CustomCompareAbsentFirst(a, b, customOrder) ==
    LET aIndex == IndexOf(customOrder, a.asin)
        bIndex == IndexOf(customOrder, b.asin)
    IN  IF aIndex = 0 /\ bIndex = 0 THEN 0
        ELSE IF aIndex = 0 THEN -1
        ELSE IF bIndex = 0 THEN 1
        ELSE aIndex - bIndex

\* the comparator of renderStandardView (indexOf is 0 here where it is -1
\* in JavaScript)
CustomCompare(a, b, customOrder) ==
    LET aIndex == IndexOf(customOrder, a.asin)
        bIndex == IndexOf(customOrder, b.asin)
    IN  IF aIndex = 0 /\ bIndex = 0 THEN 0
        ELSE IF aIndex = 0 THEN 1
        ELSE IF bIndex = 0 THEN -1
        ELSE aIndex - bIndex

\* this.userData.bookOrder[id] is there (an array, so truthy)
HasOrder(ud, id) == id \in DOMAIN ud.bookOrder

\* booksToRender of renderStandardView
booksToRender(fb, bks, ud, order, selector) ==
    IF order = "custom" /\ HasOrder(ud, selector)
    THEN StableSort(fb, LAMBDA i, j :
                        CustomCompare(bks[i], bks[j], ud.bookOrder[selector]))
    ELSE fb

\* Array.prototype.slice(start, end) with 0-based start and end
Slice(s, start, end) ==
    LET e == IF end > Len(s) THEN Len(s) ELSE end
    IN  IF start >= e THEN <<>> ELSE SubSeq(s, start + 1, e)

\* booksToShow of renderStandardView
booksToShow(toRender, count, perPage, page) ==
    IF ToNumber(perPage) >= count THEN toRender
    ELSE LET startIndex == (page - 1) * ToNumber(perPage)
             endIndex == PlusThenToNumber(startIndex, perPage)
         IN  Slice(toRender, startIndex, endIndex)

\* renderStandardView: the data-asin of the elements appended to #bookshelf
renderStandardView(fb, bks, ud, order, selector, perPage, page) ==
    AsinsOf(booksToShow(booksToRender(fb, bks, ud, order, selector),
                        Len(fb), perPage, page), bks)

\* Math.ceil(this.filteredBooks.length / this.booksPerPage)
TotalPages(count, perPage) ==
    (count + ToNumber(perPage) - 1) \div ToNumber(perPage)

\* setupPagination draws its buttons
PaginationShown(count, perPage) ==
    ~(TotalPages(count, perPage) <= 1 \/ ToNumber(perPage) >= count)

\* reorderBooks: the list left in userData.bookOrder[currentBookshelfId]
reorderBooks(ud, fbAsins, selector, draggedASIN, targetASIN) ==
    LET existing == IF HasOrder(ud, selector) THEN ud.bookOrder[selector] ELSE <<>>
        initial == IF Len(existing) = 0 THEN fbAsins ELSE existing
        withDragged == IF ~Includes(initial, draggedASIN)
                       THEN Append(initial, draggedASIN) ELSE initial
        without == RemoveAt(withDragged, IndexOf(withDragged, draggedASIN))
        targetIndex == IndexOf(without, targetASIN)
    IN  IF targetIndex # 0 THEN InsertAt(without, targetIndex, draggedASIN)
        ELSE Append(without, draggedASIN)

----------------------------------------------------------------------------
(* library.json: export and load *)

\* books[asin] = value on an object whose keys keep insertion order
ObjPut(entries, k, v) ==
    LET i == FindIndex(entries, LAMBDA e : e.key = k)
    IN  IF i # 0 THEN [entries EXCEPT ![i].value = v]
        ELSE Append(entries, [key |-> k, value |-> v])

\* the value exportUnifiedData stores under books[asin]
ExportBook(book, ud, t) ==
    [title |-> book.title,
     authors |-> book.authors,
     acquiredTime |-> OrNum(book.acquiredTime, t),
     readStatus |-> OrStr(book.readStatus, "UNREAD"),
     productImage |-> book.productImage,
     source |-> OrStr(book.source, "unknown"),
     addedDate |-> OrNum(book.addedDate, t),
     memo |-> MemoOf(ud, book.asin),
     rating |-> RatingOf(ud, book.asin)]

\* this.books.forEach(book => { if (asin) books[asin] = {...} }) from i on
RECURSIVE ExportBooks(_, _, _, _, _)
ExportBooks(bks, i, ud, t, acc) ==
    IF i > Len(bks) THEN acc
    ELSE ExportBooks(bks, i + 1, ud, t,
            IF bks[i].asin # "" THEN ObjPut(acc, bks[i].asin, ExportBook(bks[i], ud, t))
            ELSE acc)

\* exportUnifiedData: the object written to library.json
exportUnifiedData(bks, ud, t) ==
    LET exported == ExportBooks(bks, 1, ud, t, <<>>)
    IN  [exportDate |-> t,
         books |-> exported,
         bookshelves |-> ud.bookshelves,
         settings |-> [booksPerPage |-> ud.settings.booksPerPage],
         bookOrder |-> ud.bookOrder,
         stats |-> [totalBooks |-> Len(exported),
                    notesCount |-> Cardinality(DOMAIN ud.notes)]]

StringifyExportBook(e) ==
    [key |-> e.key,
     value |-> [title |-> JsonStr(e.value.title), authors |-> JsonStr(e.value.authors),
                acquiredTime |-> JsonNum(e.value.acquiredTime),
                readStatus |-> JsonStr(e.value.readStatus),
                productImage |-> JsonStr(e.value.productImage),
                source |-> JsonStr(e.value.source),
                addedDate |-> JsonNum(e.value.addedDate),
                memo |-> JsonStr(e.value.memo), rating |-> JsonNum(e.value.rating)]]

ParseExportBook(j) ==
    [key |-> j.key,
     value |-> [title |-> ParseLeaf(j.value.title), authors |-> ParseLeaf(j.value.authors),
                acquiredTime |-> ParseLeaf(j.value.acquiredTime),
                readStatus |-> ParseLeaf(j.value.readStatus),
                productImage |-> ParseLeaf(j.value.productImage),
                source |-> ParseLeaf(j.value.source),
                addedDate |-> ParseLeaf(j.value.addedDate),
                memo |-> ParseLeaf(j.value.memo), rating |-> ParseLeaf(j.value.rating)]]

\* JSON.stringify(exportData, null, 2)
StringifyExport(d) ==
    [exportDate |-> JsonNum(d.exportDate),
     books |-> JsonArray(d.books, StringifyExportBook),
     bookshelves |-> JsonArray(d.bookshelves, StringifyShelf),
     settings |-> [booksPerPage |-> JsonValue(d.settings.booksPerPage)],
     bookOrder |-> JsonDict(d.bookOrder, StringifyAsinList),
     stats |-> [totalBooks |-> JsonNum(d.stats.totalBooks),
                notesCount |-> JsonNum(d.stats.notesCount)]]

\* response.json() / JSON.parse(text) of library.json
ParseExport(j) ==
    [exportDate |-> ParseLeaf(j.exportDate),
     books |-> JsonArray(j.books, ParseExportBook),
     bookshelves |-> JsonArray(j.bookshelves, ParseShelf),
     settings |-> [booksPerPage |-> j.settings.booksPerPage],
     bookOrder |-> JsonDict(j.bookOrder, ParseAsinList),
     stats |-> [totalBooks |-> ParseLeaf(j.stats.totalBooks),
                notesCount |-> ParseLeaf(j.stats.notesCount)]]

\* BookManager.initialize: the library it leaves
initialize(saved, file) ==
    IF saved # <<>> THEN ParseLibrary(saved[1])
    ELSE IF file # <<>>
    THEN LET libraryData == ParseExport(file[1])
         IN  [books |-> [i \in DOMAIN libraryData.books |->
                           LET book == libraryData.books[i].value
                           IN  [title |-> book.title,
                                authors |-> book.authors,
                                acquiredTime |-> book.acquiredTime,
                                readStatus |-> book.readStatus,
                                asin |-> libraryData.books[i].key,
                                productImage |-> book.productImage,
                                source |-> book.source,
                                addedDate |-> book.addedDate]],
              metadata |-> [totalBooks |-> libraryData.stats.totalBooks,
                            manuallyAdded |-> 0,
                            importedFromKindle |-> libraryData.stats.totalBooks,
                            lastImportDate |-> libraryData.exportDate]]
    ELSE EmptyLibrary

\* Object.keys(libraryData.books).forEach(...) of loadData from entry i on
RECURSIVE RebuildNotes(_, _, _)
RebuildNotes(entries, i, notes) ==
    IF i > Len(entries) THEN notes
    ELSE LET book == entries[i].value
         IN  RebuildNotes(entries, i + 1,
                IF book.memo # "" \/ book.rating # 0
                THEN DictPut(notes, entries[i].key,
                             [memo |-> OrStr(book.memo, ""), rating |-> OrNum(book.rating, 0)])
                ELSE notes)

\* loadData: this.userData before config is merged into its settings
loadUserData(saved, file) ==
    IF saved # <<>> THEN ParseUserData(saved[1])
    ELSE IF file # <<>>
    THEN LET libraryData == ParseExport(file[1])
         IN  [bookshelves |-> libraryData.bookshelves,
              notes |-> RebuildNotes(libraryData.books, 1, EmptyDict),
              settings |-> [booksPerPage |-> libraryData.settings.booksPerPage,
                            affiliateId |-> ""],
              bookOrder |-> libraryData.bookOrder]
    ELSE createDefaultUserData

\* the ratings whose checkbox is checked when the page has loaded
AllStars == 0..5

\* the value loadData gives this.booksPerPage
LoadedBooksPerPage(setting) ==
    IF setting = Str("all") THEN Num(AllBooksPerPage) ELSE setting

\* new VirtualBookshelf(): constructor, init, loadData
Load(savedLibrary, savedUserData, file) ==
    LET lib == initialize(savedLibrary, file)
        loaded == loadUserData(savedUserData, file)
        ud == [loaded EXCEPT !.settings = ObjectAssign(@, Config)]
        perPage == LoadedBooksPerPage(ud.settings.booksPerPage)
        fb == applyFilters(lib.books, ud, AllShelf, AllStars, "custom", "desc")
    IN  [library |-> lib, userData |-> ud, booksPerPage |-> perPage,
         filteredBooks |-> fb,
         displayed |-> renderStandardView(fb, lib.books, ud, "custom", AllShelf, perPage, 1)]

----------------------------------------------------------------------------
(* Inputs *)

KindleBook(asin, title, authors, acquiredTime, readStatus, productImage) ==
    [asin |-> asin, title |-> title, authors |-> authors,
     acquiredTime |-> acquiredTime, readStatus |-> readStatus,
     productImage |-> productImage]

Kindle1 == KindleBook(ASIN1, "alpha", "alpha", 1, "READ", "img1.jpg")
Kindle2 == KindleBook(ASIN2, "Beta", "Beta", 2, "UNKNOWN", "img2.jpg")
Kindle3 == KindleBook(ASIN3, "Beta", "gamma", 3, "READ", "img3.jpg")
Kindle4 == KindleBook(ASIN4, "delta", "delta", 4, "UNKNOWN", "img4.jpg")
Kindle1g == [Kindle1 EXCEPT !.title = "gamma"]

\* the records of the Kindle export files handed to the application
KindleRecords == {Kindle1, Kindle1g, Kindle2}

ListsOf(S, n) == UNION {[1..k -> S] : k \in 0..n}

\* Date.now(): the clock does not go back
Clock(t) == t \in {now, now + 1} /\ t >= 1 /\ t <= MaxClock

----------------------------------------------------------------------------
(* The record store used on its own: BookManager's methods called directly *)

StoreStep(name, out) ==
    /\ focus = "store"
    /\ library' = out.library
    /\ storedLibrary' = IF out.saved THEN saveLibrary(out.library) ELSE storedLibrary
    /\ books' = out.library.books
    /\ op' = name
    /\ ret' = out.ret
    /\ UNCHANGED viewVars

\* addBookManually({asin, title}) called at time t
AddBookManuallyCall(t, asin, title) ==
    /\ Clock(t) /\ now' = t
    /\ Len(library.books) < MaxBooks
    /\ StoreStep("addBookManually",
          addBookManually(library,
              [asin |-> asin, title |-> title, authors |-> "",
               acquiredTime |-> 0, readStatus |-> "", productImage |-> ""], t))

ManualAsins == {ASIN1, ASIN2, LowerAsin, ShortAsin, ""}

BM_addBookManually ==
    \E t \in 1..MaxClock, asin \in ManualAsins, title \in {"", "Beta"} :
        AddBookManuallyCall(t, asin, title)

\* importFromKindle called at time t on a file holding kindleBooks
ImportFromKindleCall(t, kindleBooks) ==
    /\ Clock(t) /\ now' = t
    /\ Len(library.books) + Len(kindleBooks) <= MaxBooks
    /\ StoreStep("importFromKindle", importFromKindle(library, kindleBooks, t))

BM_importFromKindle ==
    \E t \in 1..MaxClock, kindleBooks \in ListsOf(KindleRecords, MaxImport) :
        ImportFromKindleCall(t, kindleBooks)

\* importSelectedBooks(selectedBooks) called at time t
ImportSelectedBooksCall(t, selectedBooks) ==
    /\ Clock(t) /\ now' = t
    /\ Len(library.books) + Len(selectedBooks) <= MaxBooks
    /\ StoreStep("importSelectedBooks", importSelectedBooks(library, selectedBooks, t))

BM_importSelectedBooks ==
    \E t \in 1..MaxClock, selectedBooks \in ListsOf(KindleRecords, MaxImport) :
        ImportSelectedBooksCall(t, selectedBooks)

BookUpdates == {[title |-> "gamma", authors |-> "no author"],
                [title |-> "alpha", authors |-> "Beta", acquiredTime |-> 2]}

UpdateBookCall(asin, updates) ==
    /\ StoreStep("updateBook", updateBook(library, asin, updates))
    /\ UNCHANGED now

BM_updateBook ==
    \E asin \in {ASIN1, ASIN2}, updates \in BookUpdates : UpdateBookCall(asin, updates)

StoreDeleteBookCall(asin, hardDelete) ==
    /\ StoreStep("deleteBook", deleteBook(library, asin, hardDelete))
    /\ UNCHANGED now

BM_deleteBook ==
    \E asin \in {ASIN1, ASIN2}, hardDelete \in BOOLEAN :
        StoreDeleteBookCall(asin, hardDelete)

BM_clearAllBooks ==
    /\ StoreStep("clearAllBooks", clearAllBooks(library))
    /\ UNCHANGED now

\* a new page load: new BookManager().initialize()
BM_initialize ==
    /\ focus = "store"
    /\ library' = initialize(storedLibrary, libraryFile)
    /\ books' = library'.books
    /\ op' = "initialize"
    /\ ret' = [ok |-> TRUE]
    /\ UNCHANGED <<storedLibrary, now>>
    /\ UNCHANGED viewVars

Loaded == Load(<<>>, <<>>, <<>>)

\* the application opened for the first time: nothing stored, no library.json
Start(f) ==
    /\ focus = f
    /\ storedLibrary = <<>>
    /\ storedUserData = <<>>
    /\ libraryFile = <<>>
    /\ library = Loaded.library
    /\ userData = Loaded.userData
    /\ books = Loaded.library.books
    /\ filteredBooks = Loaded.filteredBooks
    /\ displayed = Loaded.displayed
    /\ sortOrder = "custom"
    /\ sortDirection = "desc"
    /\ currentBookshelf = AllShelf
    /\ selectorValue = AllShelf
    /\ booksPerPage = Loaded.booksPerPage
    /\ currentPage = 1
    /\ starChecked = AllStars
    /\ now = 0
    /\ op = "init"
    /\ ret = [ok |-> TRUE]

InitStore == Start("store")

StoreNext ==
    \/ BM_addBookManually
    \/ BM_importFromKindle
    \/ BM_importSelectedBooks
    \/ BM_updateBook
    \/ BM_deleteBook
    \/ BM_clearAllBooks
    \/ BM_initialize

SpecStore == InitStore /\ [][StoreNext]_vars

----------------------------------------------------------------------------
(* The application: the handlers of VirtualBookshelf.  A session works with  *)
(* one part of the application (focus), which says which handlers it runs    *)
(* and from which inputs; the focus "store" is the record store used on its  *)
(* own, above.                                                                *)

Foci == {"store", "library", "notes", "shelves", "manager", "order", "pages",
         "shelfOrder", "export", "membership", "unlisted"}

Uses(parts) == focus \in parts

\* updateDisplay: what #bookshelf holds after it
Render(fb, bks, ud, order, selector, perPage, page) ==
    renderStandardView(fb, bks, ud, order, selector, perPage, page)

\* this.books = this.bookManager.getAllBooks(); this.applyFilters()
Refresh(lib, ud, shelf, selector) ==
    /\ books' = lib.books
    /\ filteredBooks' = applyFilters(lib.books, ud, shelf, starChecked, sortOrder,
                                     sortDirection)
    /\ currentPage' = 1
    /\ displayed' = Render(filteredBooks', lib.books, ud, sortOrder, selector,
                           booksPerPage, 1)

\* a handler left at a declined confirm(): nothing is changed.  (A handler
\* left at an alert changes nothing either; those steps are left out, the
\* guards of the actions are the conditions under which no alert is raised.)
Declined(name) ==
    /\ op' = name
    /\ ret' = [error |-> "declined"]
    /\ UNCHANGED <<library, storedLibrary, storedUserData, libraryFile, userData,
                   books, filteredBooks, displayed, sortOrder, sortDirection,
                   currentBookshelf, selectorValue, booksPerPage, currentPage,
                   starChecked, now, focus>>

\* the detail modal is opened by a click on a displayed book; opening it and
\* using one of its controls is one step
ModalAsins == Range(displayed)

\* a handler that called a BookManager method which saved its library, then
\* this.books = this.bookManager.getAllBooks() and this.applyFilters()
LibraryStep(name, out, ud) ==
    /\ ~Failed(out.ret)
    /\ library' = out.library
    /\ storedLibrary' = saveLibrary(out.library)
    /\ Refresh(out.library, ud, currentBookshelf, selectorValue)
    /\ op' = name
    /\ ret' = [ok |-> TRUE]
    /\ UNCHANGED <<libraryFile, sortOrder, sortDirection, currentBookshelf,
                   selectorValue, booksPerPage, starChecked, focus>>

\* VirtualBookshelf.addBookManually (the 'add-manually' button)
UI_addBookManually ==
    \E t \in 1..MaxClock, asin \in {ASIN1, ASIN2, LowerAsin}, title \in {"Beta"} :
        /\ Uses({"library"})
        /\ asin # "" /\ title # ""
        /\ Clock(t) /\ now' = t
        /\ Len(library.books) < MaxBooks
        /\ LibraryStep("ui.addBookManually",
              addBookManually(library,
                  [asin |-> asin, title |-> title, authors |-> "no author",
                   readStatus |-> "UNKNOWN", acquiredTime |-> t, productImage |-> ""], t),
              userData)
        /\ UNCHANGED <<userData, storedUserData>>

\* the lists of checked books the sessions import
SelectedLists ==
    CASE Uses({"library"}) -> ListsOf(KindleRecords, MaxImport)
      [] Uses({"order", "pages"}) ->
            {<<Kindle1, Kindle2>>, <<Kindle3>>, <<Kindle1, Kindle1g>>}
      [] Uses({"unlisted"}) -> {<<Kindle1, Kindle2>>, <<Kindle3, Kindle4>>}
      [] OTHER -> {<<Kindle1, Kindle2>>, <<Kindle1, Kindle1g>>}

\* VirtualBookshelf.importSelectedBooks (the checked books of the import list)
UI_importSelectedBooks ==
    \E t \in 1..MaxClock, selectedBooks \in SelectedLists :
        /\ Uses(Foci \ {"store", "manager"})
        /\ Len(selectedBooks) # 0
        /\ Clock(t) /\ now' = t
        /\ Len(library.books) + Len(selectedBooks) <= MaxBooks
        /\ LibraryStep("ui.importSelectedBooks",
                       importSelectedBooks(library, selectedBooks, t), userData)
        /\ UNCHANGED <<userData, storedUserData>>

\* VirtualBookshelf.saveBookChanges (the modal's save button); newAcquiredTime
\* 0 stands for an emptied date field
UI_saveBookChanges ==
    \E asin \in ModalAsins, newTitle \in {"gamma"}, newAcquiredTime \in {0, 2} :
        /\ Uses({"library"})
        /\ newTitle # ""
        /\ LibraryStep("ui.saveBookChanges",
              updateBook(library, asin,
                  IF newAcquiredTime # 0
                  THEN [title |-> newTitle, authors |-> "no author",
                        acquiredTime |-> newAcquiredTime]
                  ELSE [title |-> newTitle, authors |-> "no author"]),
              userData)
        /\ UNCHANGED <<userData, storedUserData, now>>

\* what VirtualBookshelf.deleteBook leaves in userData
DeleteFromUserData(ud, asin) ==
    [ud EXCEPT !.notes = DictDelete(@, asin),
               !.bookshelves = [i \in DOMAIN @ |->
                    [@[i] EXCEPT !.books = Filter(@, LAMBDA id : id # asin)]]]

\* VirtualBookshelf.deleteBook(asin), with the answer given to its confirm()
DeleteBookCall(asin, confirmed) ==
    /\ Uses({"library", "notes", "shelves", "membership", "unlisted"})
    /\ HasAsin(books, asin)
    /\ IF ~confirmed THEN Declined("ui.deleteBook")
       ELSE /\ LibraryStep("ui.deleteBook", deleteBook(library, asin, TRUE),
                           DeleteFromUserData(userData, asin))
            /\ userData' = DeleteFromUserData(userData, asin)
            /\ storedUserData' = saveUserData(userData')
            /\ UNCHANGED now

\* VirtualBookshelf.deleteBook (the modal's delete button)
UI_deleteBook ==
    \E asin \in ModalAsins, confirmed \in BOOLEAN : DeleteBookCall(asin, confirmed)

\* a variant of ClearUserData that keeps the custom orders
ClearUserDataKeepOrder(ud) ==
    [ud EXCEPT !.bookshelves = <<>>, !.notes = EmptyDict]

\* what VirtualBookshelf.clearLibrary leaves in userData
ClearUserData(ud) ==
    [ud EXCEPT !.bookshelves = <<>>, !.notes = EmptyDict, !.bookOrder = EmptyDict]

\* VirtualBookshelf.clearLibrary, with the answer given to its confirm()
ClearLibraryCall(confirmed) ==
        /\ Uses({"library", "notes", "shelves", "shelfOrder"})
        /\ IF ~confirmed THEN Declined("ui.clearLibrary")
           ELSE LET out == clearAllBooks(library)
                    ud == ClearUserData(userData)
                IN  /\ library' = out.library
                    /\ storedLibrary' = saveLibrary(out.library)
                    /\ userData' = ud
                    /\ books' = <<>>
                    /\ filteredBooks' = <<>>
                    /\ storedUserData' = saveUserData(ud)
                    /\ displayed' = Render(<<>>, <<>>, ud, sortOrder, selectorValue,
                                           booksPerPage, currentPage)
                    /\ op' = "ui.clearLibrary"
                    /\ ret' = [ok |-> TRUE]
                    /\ UNCHANGED <<libraryFile, sortOrder, sortDirection,
                                   currentBookshelf, selectorValue, booksPerPage,
                                   currentPage, starChecked, now, focus>>

\* VirtualBookshelf.clearLibrary (the clear-library button)
UI_clearLibrary == \E confirmed \in BOOLEAN : ClearLibraryCall(confirmed)

\* a handler that changes userData only and does not redraw the books
UserDataStep(name, ud) ==
    /\ userData' = ud
    /\ storedUserData' = saveUserData(ud)
    /\ op' = name
    /\ ret' = [ok |-> TRUE]
    /\ UNCHANGED <<library, storedLibrary, libraryFile, books, filteredBooks,
                   sortOrder, sortDirection, currentBookshelf, booksPerPage,
                   currentPage, starChecked, focus>>

\* the note of asin, created empty when there is none
NoteOrEmpty(ud, asin) ==
    IF asin \in DOMAIN ud.notes THEN ud.notes[asin] ELSE [memo |-> "", rating |-> 0]

\* saveNote: what it leaves in userData
saveNote(ud, asin, memo) ==
    [ud EXCEPT !.notes = DictPut(@, asin, [NoteOrEmpty(ud, asin) EXCEPT !.memo = memo])]

\* saveRating: what it leaves in userData
saveRating(ud, asin, rating) ==
    [ud EXCEPT !.notes = DictPut(@, asin, [NoteOrEmpty(ud, asin) EXCEPT !.rating = rating])]

\* the blur handler of the modal's textarea
UI_saveNote ==
    \E asin \in ModalAsins, memo \in {"", "a memo"} :
        /\ Uses({"notes"})
        /\ UserDataStep("ui.saveNote", saveNote(userData, asin, memo))
        /\ UNCHANGED <<displayed, selectorValue, now>>

\* the stars generateStarRating draws: data-rating 1..5
StarButtons == 1..5
\* the stars the sessions click
ClickedStars == {1, 5}

\* the click handler of the modal's stars
UI_starClick ==
    \E asin \in ModalAsins, rating \in ClickedStars \cap StarButtons :
        /\ Uses({"notes", "export", "membership"})
        /\ UserDataStep("ui.starClick", saveRating(userData, asin, rating))
        /\ displayed' = Render(filteredBooks, books, userData', sortOrder, selectorValue,
                               booksPerPage, currentPage)
        /\ UNCHANGED <<selectorValue, now>>

\* the click handler of the modal's rating-reset button
UI_ratingReset ==
    \E asin \in ModalAsins :
        /\ Uses({"notes", "export"})
        /\ UserDataStep("ui.ratingReset", saveRating(userData, asin, 0))
        /\ displayed' = Render(filteredBooks, books, userData', sortOrder, selectorValue,
                               booksPerPage, currentPage)
        /\ UNCHANGED <<selectorValue, now>>

ShelfIds(ud) == {ud.bookshelves[i].id : i \in DOMAIN ud.bookshelves}

\* a variant of addBookToBookshelf that pushes the key onto every bookshelf
addBookToEveryBookshelf(ud, asin, bookshelfId) ==
    [ud EXCEPT !.bookshelves = [i \in DOMAIN @ |-> [@[i] EXCEPT !.books = Append(@, asin)]]]

\* addBookToBookshelf: what it leaves in userData (the first bookshelf with
\* that id gets the key)
addBookToBookshelf(ud, asin, bookshelfId) ==
    [ud EXCEPT !.bookshelves[ShelfIndex(ud, bookshelfId)].books = Append(@, asin)]

\* the modal's add-to-bookshelf button, a bookshelf chosen in its select
UI_addBookToBookshelf ==
    \E asin \in ModalAsins, bookshelfId \in ShelfIds(userData) :
        /\ Uses({"shelves", "shelfOrder", "membership"})
        /\ ~Includes(userData.bookshelves[ShelfIndex(userData, bookshelfId)].books, asin)
        /\ UserDataStep("ui.addBookToBookshelf",
                        addBookToBookshelf(userData, asin, bookshelfId))
        /\ UNCHANGED <<displayed, selectorValue, now>>

\* a variant of removeFromBookshelf that takes the key out of every bookshelf
removeFromEveryBookshelf(ud, asin, bookshelfId) ==
    [ud EXCEPT !.bookshelves = [i \in DOMAIN @ |->
                    [@[i] EXCEPT !.books = Filter(@, LAMBDA bookAsin : bookAsin # asin)]]]

\* removeFromBookshelf: what it leaves in userData
removeFromBookshelf(ud, asin, bookshelfId) ==
    [ud EXCEPT !.bookshelves[ShelfIndex(ud, bookshelfId)].books =
                    Filter(@, LAMBDA bookAsin : bookAsin # asin)]

\* VirtualBookshelf.removeFromBookshelf(asin, bookshelfId), with the answer
\* given to its confirm()
RemoveFromBookshelfCall(asin, bookshelfId, confirmed) ==
        /\ Uses({"shelves", "membership"})
        /\ Includes(userData.bookshelves[ShelfIndex(userData, bookshelfId)].books, asin)
        /\ IF ~confirmed THEN Declined("ui.removeFromBookshelf")
           ELSE LET ud == removeFromBookshelf(userData, asin, bookshelfId)
                IN  /\ userData' = ud
                    /\ storedUserData' = saveUserData(ud)
                    /\ IF currentBookshelf = bookshelfId
                       THEN /\ filteredBooks' = applyFilters(books, ud, currentBookshelf,
                                                    starChecked, sortOrder, sortDirection)
                            /\ currentPage' = 1
                            /\ displayed' = Render(filteredBooks', books, ud, sortOrder,
                                                   selectorValue, booksPerPage, 1)
                       ELSE UNCHANGED <<filteredBooks, currentPage, displayed>>
                    /\ op' = "ui.removeFromBookshelf"
                    /\ ret' = [ok |-> TRUE]
                    /\ UNCHANGED <<library, storedLibrary, libraryFile, books, sortOrder,
                                   sortDirection, currentBookshelf, selectorValue,
                                   booksPerPage, starChecked, now, focus>>

\* the modal's remove-from-bookshelf buttons, one per bookshelf holding the book
UI_removeFromBookshelf ==
    \E asin \in ModalAsins, bookshelfId \in ShelfIds(userData), confirmed \in BOOLEAN :
        RemoveFromBookshelfCall(asin, bookshelfId, confirmed)

\* updateBookshelfSelector rebuilds the options of #bookshelf-selector: the
\* select is left on its first option, 'all'
SelectorAfterRebuild == AllShelf

\* saveBookshelfForm with no bookshelf being edited: a new bookshelf, its id
\* the time of its creation
UI_createBookshelf ==
    \E name \in {"fiction"} :
        /\ Uses({"shelves", "manager", "shelfOrder", "membership"})
        /\ Len(userData.bookshelves) < MaxShelves
        /\ now + 1 <= MaxClock
        /\ now' = now + 1
        /\ UserDataStep("ui.createBookshelf",
              [userData EXCEPT !.bookshelves =
                    Append(@, [id |-> now + 1, name |-> name, books |-> <<>>])])
        /\ selectorValue' = SelectorAfterRebuild
        /\ UNCHANGED displayed

\* editBookshelf(id), then saveBookshelfForm on the bookshelf it found
UI_editBookshelf ==
    \E bookshelfId \in ShelfIds(userData), name \in {"travel"} :
        /\ Uses({"manager"})
        /\ UserDataStep("ui.editBookshelf",
              [userData EXCEPT !.bookshelves[ShelfIndex(userData, bookshelfId)].name = name])
        /\ selectorValue' = SelectorAfterRebuild
        /\ UNCHANGED <<displayed, now>>

\* deleteBookshelf
UI_deleteBookshelf ==
    \E bookshelfId \in ShelfIds(userData), confirmed \in BOOLEAN :
        /\ Uses({"shelves", "manager"})
        /\ IF ~confirmed THEN Declined("ui.deleteBookshelf")
           ELSE LET ud == [userData EXCEPT !.bookshelves =
                               Filter(@, LAMBDA b : b.id # bookshelfId)]
                IN  /\ userData' = ud
                    /\ storedUserData' = saveUserData(ud)
                    /\ selectorValue' = SelectorAfterRebuild
                    /\ IF currentBookshelf = bookshelfId
                       THEN /\ currentBookshelf' = AllShelf
                            /\ filteredBooks' = applyFilters(books, ud, AllShelf,
                                                    starChecked, sortOrder, sortDirection)
                            /\ currentPage' = 1
                            /\ displayed' = Render(filteredBooks', books, ud, sortOrder,
                                                   AllShelf, booksPerPage, 1)
                       ELSE UNCHANGED <<currentBookshelf, filteredBooks, currentPage,
                                        displayed>>
                    /\ op' = "ui.deleteBookshelf"
                    /\ ret' = [ok |-> TRUE]
                    /\ UNCHANGED <<library, storedLibrary, libraryFile, books, sortOrder,
                                   sortDirection, booksPerPage, starChecked, now, focus>>

\* reorderBookshelves: what it leaves in userData.bookshelves
reorderBookshelves(shelves, draggedId, targetId) ==
    LET draggedIndex == FindIndex(shelves, LAMBDA b : b.id = draggedId)
        targetIndex == FindIndex(shelves, LAMBDA b : b.id = targetId)
    IN  InsertAt(RemoveAt(shelves, draggedIndex), targetIndex, shelves[draggedIndex])

\* the drop handler of the bookshelf manager's list
UI_reorderBookshelves ==
    \E draggedId \in ShelfIds(userData), targetId \in ShelfIds(userData) :
        /\ Uses({"manager"})
        /\ draggedId # targetId
        /\ UserDataStep("ui.reorderBookshelves",
              [userData EXCEPT !.bookshelves = reorderBookshelves(@, draggedId, targetId)])
        /\ selectorValue' = SelectorAfterRebuild
        /\ UNCHANGED <<displayed, now>>

\* a handler that changes what is shown and neither the library nor userData
ViewStep(name) ==
    /\ op' = name
    /\ ret' = [ok |-> TRUE]
    /\ UNCHANGED <<library, storedLibrary, storedUserData, libraryFile, userData,
                   books, now, focus>>

\* switchBookshelf: the change handler of #bookshelf-selector (a click on a
\* bookshelf of the overview does the same)
UI_switchBookshelf ==
    \E bookshelfId \in {AllShelf} \cup ShelfIds(userData) :
        /\ Uses({"shelves", "manager", "shelfOrder"})
        /\ bookshelfId # selectorValue
        /\ selectorValue' = bookshelfId
        /\ currentBookshelf' = bookshelfId
        /\ filteredBooks' = applyFilters(books, userData, bookshelfId, starChecked,
                                         sortOrder, sortDirection)
        /\ currentPage' = 1
        /\ displayed' = Render(filteredBooks', books, userData, sortOrder, bookshelfId,
                               booksPerPage, 1)
        /\ ViewStep("ui.switchBookshelf")
        /\ UNCHANGED <<sortOrder, sortDirection, booksPerPage, starChecked>>

\* the checkboxes the sessions toggle
ToggledStars == {0, 5}

\* the change handler of the checkboxes #star-0 .. #star-5
UI_toggleStar ==
    \E i \in ToggledStars :
        /\ Uses({"notes"})
        /\ starChecked' = IF i \in starChecked THEN starChecked \ {i}
                          ELSE starChecked \cup {i}
        /\ filteredBooks' = applyFilters(books, userData, currentBookshelf, starChecked',
                                         sortOrder, sortDirection)
        /\ currentPage' = 1
        /\ displayed' = Render(filteredBooks', books, userData, sortOrder, selectorValue,
                               booksPerPage, 1)
        /\ ViewStep("ui.toggleStar")
        /\ UNCHANGED <<sortOrder, sortDirection, currentBookshelf, selectorValue,
                       booksPerPage>>

SortOrders == {"custom", "title", "acquiredTime"}

\* the change handler of #sort-order
UI_setSortOrder ==
    \E order \in SortOrders :
        /\ Uses({"order"})
        /\ order # sortOrder
        /\ sortOrder' = order
        /\ filteredBooks' = applySorting(filteredBooks, books, order, sortDirection)
        /\ currentPage' = 1
        /\ displayed' = Render(filteredBooks', books, userData, order, selectorValue,
                               booksPerPage, 1)
        /\ ViewStep("ui.setSortOrder")
        /\ UNCHANGED <<sortDirection, currentBookshelf, selectorValue, booksPerPage,
                       starChecked>>

\* toggleSortDirection (updateSortDirectionButton disables the button while the
\* order is 'custom')
UI_toggleSortDirection ==
    /\ Uses({"order"})
    /\ sortOrder # "custom"
    /\ sortDirection' = IF sortDirection = "asc" THEN "desc" ELSE "asc"
    /\ filteredBooks' = applySorting(filteredBooks, books, sortOrder, sortDirection')
    /\ currentPage' = 1
    /\ displayed' = Render(filteredBooks', books, userData, sortOrder, selectorValue,
                           booksPerPage, 1)
    /\ ViewStep("ui.toggleSortDirection")
    /\ UNCHANGED <<sortOrder, currentBookshelf, selectorValue, booksPerPage, starChecked>>

\* the values of #books-per-page the sessions choose
PerPageValues == {"1", "all"}

\* setBooksPerPage: the value it gives this.booksPerPage
PerPageOf(value, count) ==
    IF value = "all" THEN Num(OrNum(count, AllBooksPerPage)) ELSE Num(ParseInt(value))

\* setBooksPerPage
UI_setBooksPerPage ==
    \E value \in PerPageValues :
        /\ Uses({"pages"})
        /\ userData.settings.booksPerPage # Str(value)
        /\ booksPerPage' = PerPageOf(value, Len(filteredBooks))
        /\ currentPage' = 1
        /\ userData' = [userData EXCEPT !.settings.booksPerPage = Str(value)]
        /\ displayed' = Render(filteredBooks, books, userData', sortOrder, selectorValue,
                               booksPerPage', 1)
        /\ storedUserData' = saveUserData(userData')
        /\ op' = "ui.setBooksPerPage"
        /\ ret' = [ok |-> TRUE]
        /\ UNCHANGED <<library, storedLibrary, libraryFile, books, filteredBooks,
                       sortOrder, sortDirection, currentBookshelf, selectorValue,
                       starChecked, now, focus>>

\* the page buttons setupPagination draws
PageButtons ==
    LET totalPages == TotalPages(Len(filteredBooks), booksPerPage)
    IN  IF ~PaginationShown(Len(filteredBooks), booksPerPage) THEN {}
        ELSE {p \in 1..totalPages : p >= currentPage - 2 /\ p <= currentPage + 2}

\* goToPage
UI_goToPage ==
    \E page \in PageButtons :
        /\ Uses({"pages"})
        /\ page # currentPage
        /\ currentPage' = page
        /\ displayed' = Render(filteredBooks, books, userData, sortOrder, selectorValue,
                               booksPerPage, page)
        /\ ViewStep("ui.goToPage")
        /\ UNCHANGED <<filteredBooks, sortOrder, sortDirection, currentBookshelf,
                       selectorValue, booksPerPage, starChecked>>

\* reorderBooks finds no custom order list for the bookshelf, or an empty one
FirstOrdering(ud, selector) ==
    ~HasOrder(ud, selector) \/ Len(ud.bookOrder[selector]) = 0

\* handleDrop: the dragged book element is dropped on another book element
UI_handleDrop ==
    \E d \in DOMAIN displayed, t \in DOMAIN displayed :
        /\ Uses({"order", "pages", "shelfOrder", "unlisted"})
        /\ d # t
        /\ userData' = [userData EXCEPT !.bookOrder =
                DictPut(@, selectorValue,
                        reorderBooks(userData, AsinsOf(filteredBooks, books), selectorValue,
                                     displayed[d], displayed[t]))]
        /\ sortOrder' = "custom"
        /\ storedUserData' = saveUserData(userData')
        /\ displayed' = Render(filteredBooks, books, userData', "custom", selectorValue,
                               booksPerPage, currentPage)
        /\ op' = "ui.handleDrop"
        /\ ret' = [dragged |-> displayed[d], target |-> displayed[t]]
        /\ UNCHANGED <<library, storedLibrary, libraryFile, books, filteredBooks,
                       sortDirection, currentBookshelf, selectorValue, booksPerPage,
                       currentPage, starChecked, now, focus>>

\* the state a page load leaves
LoadStep(name, loaded) ==
    /\ library' = loaded.library
    /\ userData' = loaded.userData
    /\ books' = loaded.library.books
    /\ filteredBooks' = loaded.filteredBooks
    /\ displayed' = loaded.displayed
    /\ booksPerPage' = loaded.booksPerPage
    /\ sortOrder' = "custom"
    /\ sortDirection' = "desc"
    /\ currentBookshelf' = AllShelf
    /\ selectorValue' = AllShelf
    /\ currentPage' = 1
    /\ starChecked' = AllStars
    /\ op' = name
    /\ ret' = [ok |-> TRUE]
    /\ UNCHANGED <<now, focus>>

\* the page is loaded again
Reload ==
    /\ Uses(Foci \ {"store"})
    /\ LoadStep("reload", Load(storedLibrary, storedUserData, libraryFile))
    /\ UNCHANGED <<storedLibrary, storedUserData, libraryFile>>

\* exportUnifiedData writes library.json; the file is put in data/, local
\* storage is emptied and the page is loaded
InstallExport ==
    /\ Uses({"export"})
    /\ libraryFile = <<>>
    /\ now >= 1
    /\ libraryFile' = <<StringifyExport(exportUnifiedData(books, userData, now))>>
    /\ storedLibrary' = <<>>
    /\ storedUserData' = <<>>
    /\ LoadStep("installExport", Load(<<>>, <<>>, libraryFile'))

Init == \E f \in Foci : Start(f)

Next ==
    \/ BM_addBookManually
    \/ BM_importFromKindle
    \/ BM_importSelectedBooks
    \/ BM_updateBook
    \/ BM_deleteBook
    \/ BM_clearAllBooks
    \/ BM_initialize
    \/ UI_addBookManually
    \/ UI_importSelectedBooks
    \/ UI_saveBookChanges
    \/ UI_deleteBook
    \/ UI_clearLibrary
    \/ UI_saveNote
    \/ UI_starClick
    \/ UI_ratingReset
    \/ UI_addBookToBookshelf
    \/ UI_removeFromBookshelf
    \/ UI_createBookshelf
    \/ UI_editBookshelf
    \/ UI_deleteBookshelf
    \/ UI_reorderBookshelves
    \/ UI_switchBookshelf
    \/ UI_toggleStar
    \/ UI_setSortOrder
    \/ UI_toggleSortDirection
    \/ UI_setBooksPerPage
    \/ UI_goToPage
    \/ UI_handleDrop
    \/ Reload
    \/ InstallExport

Spec == Init /\ [][Next]_vars

----------------------------------------------------------------------------
(* The claims *)

AsinCount(bs, asin) == Count(bs, LAMBDA b : b.asin = asin)

\* C1. Key uniqueness: no two records of library.books have the same asin,
\* whatever sequence of BookManager operations was run, import batches that
\* name an asin twice included.
C1_KeyUniqueness ==
    \A i, j \in DOMAIN library.books :
        i # j => library.books[i].asin # library.books[j].asin

\* what C2 says of one importFromKindle call that found `before` in the
\* library, was given kindleBooks and left `after`, returning results
C2_Post(before, kindleBooks, after, results) ==
    LET imported == {kindleBooks[i].asin : i \in DOMAIN kindleBooks}
    IN  /\ \A asin \in imported :
              AsinCount(after, asin) = IF HasAsin(before, asin)
                                       THEN AsinCount(before, asin) ELSE 1
        /\ Len(after) = Len(before) + results.added
        /\ \A i \in DOMAIN before :
              /\ after[i].asin = before[i].asin
              /\ before[i].asin \notin imported => after[i] = before[i]
        /\ \A i \in (Len(before) + 1)..Len(after) : after[i].asin \in imported

\* C2. Deduplicated import-merge: importFromKindle appends exactly one record
\* for an imported asin the library did not have and none for an asin it had;
\* the library grows by results.added; the records whose asin is not in the
\* imported list are unchanged and stay where they were.
C2_ImportMerge ==
    [][\A t \in 1..MaxClock, kindleBooks \in ListsOf(KindleRecords, MaxImport) :
          ImportFromKindleCall(t, kindleBooks)
              => C2_Post(library.books, kindleBooks, library'.books, ret')]_vars

\* an import of a list naming one new asin twice, into a library holding
\* another book
C2_Witness ==
    /\ op = "importFromKindle"
    /\ ret.total = 2 /\ ret.added = 1 /\ ret.updated = 1
    /\ HasAsin(library.books, ASIN2)
    /\ AsinCount(library.books, ASIN1) = 1

\* C10. Provenance tag: a record created by addBookManually has source
\* 'manual_add', a record created by importFromKindle or importSelectedBooks
\* has source 'kindle_import', and importFromKindle leaves the source and the
\* addedDate of the records it updates as they were.
C10_Provenance ==
    [][LET before == library.books
           after == library'.books
           created == (Len(before) + 1)..Len(after)
       IN  /\ op' = "addBookManually" /\ ~Failed(ret')
                => /\ Len(after) = Len(before) + 1
                   /\ after[Len(after)].source = "manual_add"
           /\ op' \in {"importFromKindle", "importSelectedBooks"}
                => /\ Len(after) >= Len(before)
                   /\ \A i \in created : after[i].source = "kindle_import"
           /\ op' = "importFromKindle"
                => \A i \in DOMAIN before :
                      /\ after[i].source = before[i].source
                      /\ after[i].addedDate = before[i].addedDate]_vars

\* importFromKindle has just updated a record that addBookManually created
\* and has added another
C10_Witness ==
    /\ op = "importFromKindle"
    /\ ret.updated = 1 /\ ret.added = 1
    /\ \E i \in DOMAIN library.books :
          /\ library.books[i].source = "manual_add"
          /\ library.books[i].title = "alpha"
          /\ library.books[i].addedDate < library.metadata.lastImportDate

\* the asins of fbAsins that are list[k], list[k+1], ..., in list order
\* (an asin the list repeats counts where it is first)
RECURSIVE C3_InListOrder(_, _, _)
C3_InListOrder(list, k, fbAsins) ==
    IF k > Len(list) THEN <<>>
    ELSE (IF IndexOf(list, list[k]) = k
          THEN SelectSeq(fbAsins, LAMBDA asin : asin = list[k]) ELSE <<>>)
         \o C3_InListOrder(list, k + 1, fbAsins)

\* the filtered books in the list, in list order, then the filtered books
\* not in the list, in the order filteredBooks has them
C3_Expected ==
    LET list == userData.bookOrder[selectorValue]
        fbAsins == AsinsOf(filteredBooks, books)
    IN  C3_InListOrder(list, 1, fbAsins)
        \o SelectSeq(fbAsins, LAMBDA asin : ~Includes(list, asin))

\* what renderStandardView puts in #bookshelf in this state
C3_Rendered ==
    renderStandardView(filteredBooks, books, userData, sortOrder, selectorValue,
                       booksPerPage, currentPage)

C3_CustomOrdered == sortOrder = "custom" /\ HasOrder(userData, selectorValue)

C4_NoDuplicateKeys ==
    \A id \in DOMAIN userData.bookOrder : NoDuplicates(userData.bookOrder[id])

C5_LibraryOps ==
    {"addBookManually", "importFromKindle", "importSelectedBooks", "updateBook",
     "deleteBook", "clearAllBooks", "ui.addBookManually", "ui.importSelectedBooks",
     "ui.saveBookChanges", "ui.deleteBook", "ui.clearLibrary"}

\* the steps that load the page
C5_Loads == {"initialize", "reload", "installExport"}

\* C5. Store mirrored to local storage: when a BookManager mutating operation
\* has completed, 'virtualBookshelf_library' holds the serialization of the
\* in-memory library; when a VirtualBookshelf operation has changed userData,
\* 'virtualBookshelf_userData' holds the serialization of the in-memory
\* userData.
C5_Mirrored ==
    [][/\ (op' \notin C5_Loads
             /\ (library' # library \/ (op' \in C5_LibraryOps /\ ~Failed(ret'))))
          => /\ storedLibrary' # <<>>
             /\ ParseLibrary(storedLibrary'[1]) = library'
       /\ (op' \notin C5_Loads /\ userData' # userData)
          => /\ storedUserData' # <<>>
             /\ ParseUserData(storedUserData'[1]) = userData']_vars

\* a confirmed deleteBook has removed a book that had a note, leaving another
\* book with a note
C5_Witness ==
    /\ op = "ui.deleteBook" /\ ~Failed(ret)
    /\ Len(library.books) >= 1
    /\ DOMAIN userData.notes # {}
    /\ Cardinality(DOMAIN ParseUserData(storedUserData[1]).notes) = 1
    /\ ParseLibrary(storedLibrary[1]) = library

\* C6. Persistence between sessions: loading the page from what local storage
\* (and data/library.json) hold gives the book records in the same order, the
\* bookshelves with the same member lists, the same notes and ratings and the
\* same custom orders as the running application has.
C6_Persistence ==
    LET loaded == Load(storedLibrary, storedUserData, libraryFile)
    IN  /\ loaded.library.books = library.books
        /\ loaded.userData.bookshelves = userData.bookshelves
        /\ loaded.userData.notes = userData.notes
        /\ loaded.userData.bookOrder = userData.bookOrder

\* the page has been loaded again and shows two books, a bookshelf with a
\* member and a custom order for that bookshelf
C6_Witness ==
    /\ op = "reload"
    /\ Len(library.books) >= 2
    /\ storedLibrary # <<>> /\ storedUserData # <<>>
    /\ \E i \in DOMAIN userData.bookshelves :
          /\ userData.bookshelves[i].books # <<>>
          /\ HasOrder(userData, userData.bookshelves[i].id)
          /\ Len(userData.bookOrder[userData.bookshelves[i].id]) >= 2

\* C7. Export/import round trip: the file exportUnifiedData writes, loaded as
\* data/library.json with local storage empty, gives the same set of book
\* records, the same bookshelves, the same custom orders and for every book
\* the same memo and rating.
C7_RoundTrip ==
    LET file == <<StringifyExport(exportUnifiedData(books, userData, now + 1))>>
        loaded == Load(<<>>, <<>>, file)
    IN  /\ Range(loaded.library.books) = Range(books)
        /\ loaded.userData.bookshelves = userData.bookshelves
        /\ loaded.userData.bookOrder = userData.bookOrder
        /\ \A i \in DOMAIN books :
              /\ MemoOf(loaded.userData, books[i].asin) = MemoOf(userData, books[i].asin)
              /\ RatingOf(loaded.userData, books[i].asin) = RatingOf(userData, books[i].asin)

\* C8. Rating range: every rating stored in userData.notes is an integer from
\* 0 to 5, and the star filter keeps a book without a note exactly when the
\* checkbox of rating 0 is checked.
C8_RatingRange ==
    /\ \A asin \in DOMAIN userData.notes : userData.notes[asin].rating \in 0..5
    /\ op = "ui.toggleStar" =>
          \A i \in DOMAIN books :
              books[i].asin \notin DOMAIN userData.notes =>
                  (Includes(filteredBooks, i) <=> 0 \in starChecked)

\* the checkbox of rating 0 has been cleared: a book rated 5 is shown, a book
\* without a note is not
C8_Witness ==
    /\ op = "ui.toggleStar" /\ 0 \notin starChecked
    /\ \E i \in DOMAIN books : books[i].asin \notin DOMAIN userData.notes
    /\ \E k \in DOMAIN filteredBooks : RatingOf(userData, books[filteredBooks[k]].asin) = 5

\* C9. Bookshelf membership: addBookToBookshelf appends the key to one
\* bookshelf and leaves every other bookshelf as it was, and no bookshelf's
\* book list holds an asin twice.
C9_Membership ==
    [][/\ \A i \in DOMAIN userData'.bookshelves :
             NoDuplicates(userData'.bookshelves[i].books)
       /\ op' = "ui.addBookToBookshelf" =>
             /\ DOMAIN userData'.bookshelves = DOMAIN userData.bookshelves
             /\ \E i \in DOMAIN userData.bookshelves, asin \in Range(displayed) :
                   /\ userData'.bookshelves[i] =
                         [userData.bookshelves[i] EXCEPT !.books = Append(@, asin)]
                   /\ \A j \in DOMAIN userData.bookshelves \ {i} :
                         userData'.bookshelves[j] = userData.bookshelves[j]]_vars

\* one book is a member of two bookshelves and another book of none
C9_Witness ==
    /\ op = "ui.addBookToBookshelf"
    /\ Len(userData.bookshelves) = 2
    /\ \E i \in DOMAIN books :
          \A k \in DOMAIN userData.bookshelves :
              Includes(userData.bookshelves[k].books, books[i].asin)
    /\ \E i \in DOMAIN books :
          \A k \in DOMAIN userData.bookshelves :
              ~Includes(userData.bookshelves[k].books, books[i].asin)

\* C11. Deleting a book in the UI, once confirmed, leaves the library with
\* the records of the other asins only, each unchanged and in their order,
\* removes the note (memo and rating) of the asin, and removes the asin from
\* every bookshelf's book list; the other notes and the other bookshelf
\* memberships are unchanged.  A declined confirmation changes nothing.
C11_Deleted(asin) ==
    /\ library'.books = SelectSeq(library.books, LAMBDA b : b.asin # asin)
    /\ DOMAIN userData'.notes = DOMAIN userData.notes \ {asin}
    /\ \A k \in DOMAIN userData'.notes : userData'.notes[k] = userData.notes[k]
    /\ Len(userData'.bookshelves) = Len(userData.bookshelves)
    /\ \A i \in DOMAIN userData.bookshelves :
          /\ userData'.bookshelves[i].id = userData.bookshelves[i].id
          /\ userData'.bookshelves[i].books =
                SelectSeq(userData.bookshelves[i].books, LAMBDA id : id # asin)

C11_UiDelete ==
    [][\A asin \in {ASIN1, ASIN2, ASIN3, ASIN4} :
          /\ DeleteBookCall(asin, TRUE) => C11_Deleted(asin)
          /\ DeleteBookCall(asin, FALSE) =>
                UNCHANGED <<library, userData, storedLibrary, storedUserData>>]_vars

\* what C12 says of a confirmed removeFromBookshelf(asin, bookshelfId)
C12_Removed(asin, bookshelfId) ==
    /\ library' = library
    /\ userData'.notes = userData.notes
    /\ Len(userData'.bookshelves) = Len(userData.bookshelves)
    /\ \A i \in DOMAIN userData.bookshelves :
          IF i = ShelfIndex(userData, bookshelfId)
          THEN /\ userData'.bookshelves[i].id = bookshelfId
               /\ userData'.bookshelves[i].books =
                     SelectSeq(userData.bookshelves[i].books, LAMBDA id : id # asin)
          ELSE userData'.bookshelves[i] = userData.bookshelves[i]

\* C12. removeFromBookshelf(asin, bookshelfId), once confirmed, removes the
\* key only from that bookshelf's book list: the library is unchanged, the
\* notes and ratings are unchanged, and every other bookshelf is unchanged.
C12_RemoveFromBookshelf ==
    [][\A asin \in {ASIN1, ASIN2, ASIN3, ASIN4}, bookshelfId \in ShelfIds(userData) :
          RemoveFromBookshelfCall(asin, bookshelfId, TRUE) =>
              C12_Removed(asin, bookshelfId)]_vars

\* a rated book that was on two bookshelves has been removed from one of them
C12_Witness ==
    /\ op = "ui.removeFromBookshelf" /\ "ok" \in DOMAIN ret
    /\ \E asin \in {ASIN1, ASIN2, ASIN3, ASIN4} :
          /\ books # <<>>
          /\ \A i \in DOMAIN books : books[i].asin = asin
          /\ asin \in DOMAIN userData.notes
          /\ \E i, j \in DOMAIN userData.bookshelves :
                /\ ~Includes(userData.bookshelves[i].books, asin)
                /\ Includes(userData.bookshelves[j].books, asin)

\* what C13 says of a confirmed clearLibrary
C13_Cleared ==
    /\ library'.books = <<>>
    /\ userData'.bookshelves = <<>>
    /\ DOMAIN userData'.notes = {}
    /\ DOMAIN userData'.bookOrder = {}
    /\ userData'.settings = userData.settings
    /\ storedLibrary' # <<>>
    /\ ParseLibrary(storedLibrary'[1]) = library'
    /\ storedUserData' # <<>>
    /\ ParseUserData(storedUserData'[1]) = userData'

\* C13. clearLibrary, once confirmed, leaves the library with no book
\* records and userData with no bookshelves, no notes or ratings and no
\* custom orders, both as they are in local storage, and userData.settings
\* as it was; a declined confirmation leaves library and userData unchanged.
C13_ClearLibrary ==
    [][/\ ClearLibraryCall(TRUE) => C13_Cleared
       /\ ClearLibraryCall(FALSE) => UNCHANGED <<library, userData>>]_vars

\* the library was cleared while a bookshelf was selected and the clock had
\* reached its bound: books, a bookshelf and a custom order were there
C13_Witness ==
    /\ op = "ui.clearLibrary" /\ "ok" \in DOMAIN ret
    /\ currentBookshelf # AllShelf
    /\ sortOrder = "custom"
    /\ now = MaxClock
    /\ library.books = <<>> /\ userData.bookshelves = <<>>

\* the call raised an error and left the library and its stored copy alone
C14_Rejected ==
    /\ "error" \in DOMAIN ret'
    /\ library'.books = library.books
    /\ library'.metadata = library.metadata
    /\ storedLibrary' = storedLibrary

\* the key is not exactly 10 characters of A-Z/0-9
C14_BadKey(asin) ==
    \/ Len(AsinChars(asin)) # 10
    \/ \E i \in DOMAIN AsinChars(asin) : AsinChars(asin)[i] \notin UpperOrDigit

C14_Present(asin) == \E i \in DOMAIN library.books : library.books[i].asin = asin

\* C14. Rejected store operations change nothing: addBookManually with a key
\* that is missing, or not exactly 10 characters of A-Z/0-9, or already in the
\* library, and deleteBook or updateBook with a key not in the library, raise
\* an error and leave library.books, library.metadata and the stored copy
\* unchanged.
C14_RejectedUnchanged ==
    [][/\ \A t \in 1..MaxClock, asin \in ManualAsins, title \in {"", "Beta"} :
            (/\ AddBookManuallyCall(t, asin, title)
             /\ (asin = "" \/ C14_BadKey(asin) \/ C14_Present(asin))) => C14_Rejected
       /\ \A asin \in {ASIN1, ASIN2}, hardDelete \in BOOLEAN :
            (StoreDeleteBookCall(asin, hardDelete) /\ ~C14_Present(asin)) => C14_Rejected
       /\ \A asin \in {ASIN1, ASIN2}, updates \in BookUpdates :
            (UpdateBookCall(asin, updates) /\ ~C14_Present(asin)) => C14_Rejected]_vars

\* addBookManually was rejected for a key the library holds, the library
\* having a stored copy
C14_Witness ==
    /\ op = "addBookManually"
    /\ "error" \in DOMAIN ret /\ ret.error = "already in library"
    /\ library.books # <<>>
    /\ storedLibrary # <<>>

\* the five fields an import carries
C15_Five(r) == <<r.title, r.authors, r.acquiredTime, r.readStatus, r.productImage>>

\* the last record of the imported list with this asin
C15_LastImported(kindleBooks, asin) ==
    LET last == CHOOSE i \in DOMAIN kindleBooks :
                    /\ kindleBooks[i].asin = asin
                    /\ \A j \in DOMAIN kindleBooks :
                          kindleBooks[j].asin = asin => j <= i
    IN  kindleBooks[last]

\* element i of the imported list meets a record of its asin: the library
\* had one, or an earlier element of the list has the asin
C15_Meets(before, kindleBooks, i) ==
    \/ HasAsin(before, kindleBooks[i].asin)
    \/ \E j \in 1..(i - 1) : kindleBooks[j].asin = kindleBooks[i].asin

\* the record element i meets, as the claim has it when the loop reaches i
C15_Met(before, kindleBooks, i) ==
    IF \E j \in 1..(i - 1) : kindleBooks[j].asin = kindleBooks[i].asin
    THEN C15_LastImported(SubSeq(kindleBooks, 1, i - 1), kindleBooks[i].asin)
    ELSE before[BookIndex(before, kindleBooks[i].asin)]

C15_Differing(before, kindleBooks) ==
    {i \in DOMAIN kindleBooks :
        /\ C15_Meets(before, kindleBooks, i)
        /\ C15_Five(C15_Met(before, kindleBooks, i)) # C15_Five(kindleBooks[i])}

C15_Post(before, kindleBooks, after, results) ==
    /\ \A i \in DOMAIN after :
          (\E k \in DOMAIN kindleBooks : kindleBooks[k].asin = after[i].asin)
              => C15_Five(after[i]) = C15_Five(C15_LastImported(kindleBooks, after[i].asin))
    /\ results.updated = Cardinality(C15_Differing(before, kindleBooks))

C15_DistinctKeys ==
    \A i, j \in DOMAIN library.books :
        library.books[i].asin = library.books[j].asin => i = j

\* C15. Import overwrites existing books with the new information: after
\* importFromKindle on a library of pairwise distinct asins, every record
\* whose asin occurs in the imported list has the title, authors,
\* acquiredTime, readStatus and productImage of the last imported record with
\* that asin, and results.updated counts the imported records that met a
\* record of their asin differing in at least one of those fields.
C15_ImportOverwrites ==
    [][\A t \in 1..MaxClock, kindleBooks \in ListsOf(KindleRecords, MaxImport) :
          (C15_DistinctKeys /\ ImportFromKindleCall(t, kindleBooks))
              => C15_Post(library.books, kindleBooks, library'.books, ret')]_vars

\* C16. Import result accounting: the result of importFromKindle has
\* total = added + updated + skipped, total being the length of the imported
\* list; the result of importSelectedBooks has total = added + skipped,
\* updated = 0 and skipped = number of duplicates + number of errors, the
\* duplicates being the selected books whose asin the library had; after
\* either call the library is longer by `added`.
C16_Accounting ==
    [][\A t \in 1..MaxClock, list \in ListsOf(KindleRecords, MaxImport) :
          /\ ImportFromKindleCall(t, list) =>
                /\ ret'.total = Len(list)
                /\ ret'.total = ret'.added + ret'.updated + ret'.skipped
                /\ Len(library'.books) = Len(library.books) + ret'.added
          /\ ImportSelectedBooksCall(t, list) =>
                /\ ret'.total = Len(list)
                /\ ret'.total = ret'.added + ret'.skipped
                /\ ret'.updated = 0
                /\ ret'.skipped = Len(ret'.duplicates) + Len(ret'.errors)
                /\ Len(ret'.duplicates) =
                      Cardinality({i \in DOMAIN list : HasAsin(library.books, list[i].asin)})
                /\ Len(library'.books) = Len(library.books) + ret'.added]_vars

\* a selected import of two books, one of them a duplicate
C16_Witness ==
    /\ op = "importSelectedBooks"
    /\ ret.total = 2 /\ ret.added = 1 /\ ret.skipped = 1
    /\ Len(ret.duplicates) = 1
    /\ Len(library.books) >= 2

\* the books shown have pairwise distinct asins
C17_DistinctKeys ==
    \A i, j \in DOMAIN books : books[i].asin = books[j].asin => i = j

\* C17. Drop position: after book d is dropped onto a different displayed
\* book t, the library having pairwise distinct asins, the view is in custom
\* order and d is displayed immediately before t.
C17_DropPosition ==
    [][(UI_handleDrop /\ C17_DistinctKeys) =>
          /\ sortOrder' = "custom"
          /\ \E k \in 1..(Len(displayed') - 1) :
                displayed'[k] = ret'.dragged /\ displayed'[k + 1] = ret'.target]_vars

\* s with the first x taken out
C18_Without(s, x) == IF Includes(s, x) THEN RemoveAt(s, IndexOf(s, x)) ELSE s

\* C18. First-time ordering: when the bookshelf has no custom order list, or
\* an empty one, the drop leaves a list that is the asins of filteredBooks in
\* their order with the dragged asin moved, and the sequence displayed after
\* the drop is the sequence displayed before it with only the dragged book
\* moved.
C18_FirstOrdering ==
    [][(UI_handleDrop /\ FirstOrdering(userData, selectorValue)) =>
          LET d == ret'.dragged
              fbAsins == AsinsOf(filteredBooks, books)
              list == userData'.bookOrder[selectorValue]
          IN  /\ Len(list) = Len(fbAsins)
              /\ C18_Without(list, d) = C18_Without(fbAsins, d)
              /\ Len(displayed') = Len(displayed)
              /\ C18_Without(displayed', d) = C18_Without(displayed, d)]_vars

\* s with the first x taken out
C19_Without(s, x) == IF Includes(s, x) THEN RemoveAt(s, IndexOf(s, x)) ELSE s

C19_DistinctKeys ==
    \A i \in DOMAIN books : \A j \in DOMAIN books :
        books[i].asin = books[j].asin => i = j

\* C19. A drop moves only the dragged book: whatever sort order is selected
\* and whatever custom order list exists, the books having pairwise distinct
\* asins, the sequence displayed after the drop is the sequence displayed
\* before it with the dragged book taken out and put back in, the other
\* books keeping their relative display order.
C19_OnlyDraggedMoves ==
    [][(UI_handleDrop /\ C19_DistinctKeys) =>
          /\ Len(displayed') = Len(displayed)
          /\ C19_Without(displayed', ret'.dragged) = C19_Without(displayed, ret'.dragged)]_vars

====
